---------------------------- MODULE Spec2Model ----------------------------
(***************************************************************************)
(* A model of scripts/discord-stats-bot.py: the CPU delta sampler, the     *)
(* backup inventory (list_backups), the three bounded reports, and the     *)
(* command handlers running on the single-threaded event loop.             *)
(*                                                                         *)
(* Text is modelled as text.  A piece of text the program only emits is a  *)
(* TLA+ string; a piece of text the program takes apart (a directory       *)
(* name, a relative path) is a sequence of one-character strings.  The     *)
(* Lithuanian letters of the program's messages are written without their  *)
(* diacritics, one letter for one letter, so every length is the length    *)
(* len() gives in the program.                                             *)
(***************************************************************************)
EXTENDS Integers, Sequences, FiniteSets, TLC

VARIABLES
    \* ---- the bot: configuration, gateway events, the event loop ----
    allowDms,          \* ALLOW_DMS
    allowedChannelId,  \* ALLOWED_CHANNEL_ID, "" when not set
    reqs,       \* per request: the interaction or message the gateway delivered
    rstate,     \* per request: "absent", "queued", "running" or "done"
    loop,       \* the request whose handler holds the event loop's thread, or Free
    replies,    \* per request: the messages sent in answer to it
    invoked,    \* per request: the report functions its handler called
    want,       \* the report function the running handler is calling; "any" when
                \* the report functions are called directly, without a handler
    \* ---- CPU delta sampler (cpu_usage_str) ----
    procStat,   \* the cpu line of /proc/stat: a sequence of tick counters, or NoFile
    procStatLater,  \* the cpu lines /proc/stat shows after the sleeps to come, in
                    \* order; once used up the counters stand still
    cpuPc,      \* position inside cpu_usage_str
    stat1,      \* the vals list of the first read_stat()
    t1,         \* total of the first reading
    i1,         \* idle of the first reading
    cpuOut,     \* the string cpu_usage_str returned
    \* ---- configuration and file system ----
    backupBaseDir,      \* BACKUP_BASE_DIR
    backupFallbackDir,  \* BACKUP_FALLBACK_DIR
    fs,         \* per directory of DirIds: whether it can be listed, and its entries
    \* ---- one call of a report function ----
    lpc,        \* position inside the report function
    fn,         \* the function called: "list", "index", "files" or "summary"
    index,      \* the argument of backup_files_text
    backups,    \* the local backups: what list_backups() returned
    files,      \* the local files of backup_files_text, sorted
    lines,      \* the local lines
    hidden,     \* the local hidden
    current_len,\* the local current_len
    pos,        \* the position of the budget loop in its candidates, from 1
    out,        \* the string the function returned
    \* ---- what happened (history, not program state) ----
    ncalls,     \* calls made so far
    churn,      \* changes other processes made to the file system so far
    kept,       \* the positions of the candidates the budget loop kept
    shown,      \* the (number, timestamp) pairs of the lines the last index report shows
    fresh,      \* the file system did not change since that index report's list_backups()
    dirAtCheck, \* whether the backup directory existed at the isdir check
    dirAtWalk   \* whether the backup directory existed when the files were walked

botCfgVars == <<allowDms, allowedChannelId>>

reqVars == <<botCfgVars, reqs, rstate, loop, replies, invoked>>

botVars == <<reqVars, want>>

cpuVars == <<procStat, procStatLater, cpuPc, stat1, t1, i1, cpuOut>>

cfgVars == <<backupBaseDir, backupFallbackDir>>

callVars == <<lpc, fn, index, backups, files, lines, hidden, current_len, pos, out>>

histVars == <<ncalls, churn, kept, shown, fresh, dirAtCheck, dirAtWalk>>

vars == <<botVars, cpuVars, cfgVars, fs, callVars, histVars>>

-----------------------------------------------------------------------------
(* Bounds of the model *)

\* Every tick counter of a /proc/stat reading is in 0..MaxTick.
MaxTick == 1

\* A small backup root holds at most MaxDirEntries entries.
MaxDirEntries == 2

\* A large backup root holds up to MaxBackups backups (80 numbered lines fit
\* the budget of the index report).
MaxBackups == 82

\* The large roots hold at least MaxBackups - BigSpread backups.
BigSpread == 2

\* The length of a long relative path (three such lines fit the budget of the
\* file list, and nothing more after them), and of a still longer one (its line
\* and one long line fill the budget to the last character).
LongRelLen == 580

HugeRelLen == 1169

\* backup_files_text is called with the numbers -1..MaxLowArg and the numbers
\* around MaxBackups.
MaxLowArg == 3

\* Report functions are called at most MaxCalls times in a row.
MaxCalls == 2

\* Other processes change the file system at most MaxChurn times, and only
\* roots of at most MaxChurnDir entries.
MaxChurn == 1

MaxChurnDir == 2

-----------------------------------------------------------------------------
(* Text helpers *)

Min(a, b) == IF a <= b THEN a ELSE b

\* the sequence <<F(lo), ..., F(hi)>>
RECURSIVE Build(_, _, _)
Build(F(_), lo, hi) ==
    IF lo > hi THEN <<>>
    ELSE IF lo = hi THEN <<F(lo)>>
    ELSE LET mid == (lo + hi) \div 2
         IN  Build(F, lo, mid) \o Build(F, mid + 1, hi)

RECURSIVE SumSeq(_)
SumSeq(s) == IF s = <<>> THEN 0 ELSE Head(s) + SumSeq(Tail(s))

DigitStr(d) ==
    CASE d = 0 -> "0" [] d = 1 -> "1" [] d = 2 -> "2" [] d = 3 -> "3"
      [] d = 4 -> "4" [] d = 5 -> "5" [] d = 6 -> "6" [] d = 7 -> "7"
      [] d = 8 -> "8" [] d = 9 -> "9"

\* str(n) for a natural number n
RECURSIVE NatToStr(_)
NatToStr(n) == IF n < 10 THEN DigitStr(n)
               ELSE NatToStr(n \div 10) \o DigitStr(n % 10)

\* the character c, n times
RECURSIVE Repeat(_, _)
Repeat(c, n) == IF n <= 0 THEN "" ELSE c \o Repeat(c, n - 1)

\* f"{n:>w}": right-aligned in a field of width w, never cut
PadLeft(s, w) == Repeat(" ", w - Len(s)) \o s

\* f"{n:0w}": zero-padded to width w, never cut
ZeroPad(n, w) == Repeat("0", w - Len(NatToStr(n))) \o NatToStr(n)

-----------------------------------------------------------------------------
(* cpu_usage_str *)

\* /proc/stat missing or without a cpu line: no counter can be read
NoFile == <<>>

NA == "n/a"

\* f"{x:.0f}" of the double nearest num/den (den > 0), as the set of strings
\* the build can give.  Formatting rounds the double half to even; the double
\* is the exact quotient up to a relative error of about 1e-16, so away from
\* a tie there is one outcome and at a tie of the exact quotient the double may
\* lie on either side (or, when exactly representable, on the tie, which goes
\* to the even neighbour): both neighbours are outcomes.
Fmt0f(num, den) ==
    LET neg  == num < 0
        a    == IF neg THEN -num ELSE num
        q    == a \div den
        r    == a % den
        mags == IF 2 * r < den THEN {q}
                ELSE IF 2 * r > den THEN {q + 1}
                ELSE {q, q + 1}
    IN  {(IF neg THEN "-" ELSE "") \o NatToStr(m) : m \in mags}

\* the lines 108-113 with dt == 0 as the test, for the mutation check
CpuUsage_EqZero(ta, ia, tb, ib) ==
    LET dt == tb - ta
        di == ib - ia
    IN  IF dt = 0 THEN {NA}
        ELSE IF dt < 0
             THEN {s \o "%" : s \in Fmt0f(100 * (di - dt), -dt)}
             ELSE {s \o "%" : s \in Fmt0f(100 * (dt - di), dt)}

\* lines 108-113: from the two readings to the returned string
\* usage = (1.0 - di/dt) * 100.0 = 100 * (dt - di) / dt
CpuUsage(ta, ia, tb, ib) ==
    LET dt == tb - ta
        di == ib - ia
    IN  IF dt <= 0 THEN {NA}
        ELSE {s \o "%" : s \in Fmt0f(100 * (dt - di), dt)}

\* read_stat() raises when the file cannot be read or has fewer than 4 fields
ReadStatOk(stat) == Len(stat) >= 4

ReadStatTotal(stat) == SumSeq(stat)

ReadStatIdle(stat) == stat[4] + (IF Len(stat) > 4 THEN stat[5] ELSE 0)

\* The cpu line has 4 fields (user nice system idle) on the oldest kernels
\* and more (iowait, ...) on the others.
StatReadings(n) == [1..n -> 0..MaxTick]

StatFiles == {NoFile} \cup StatReadings(4) \cup StatReadings(5)

CpuInit ==
    /\ procStat \in StatFiles
    /\ procStatLater \in {<<s>> : s \in StatReadings(Len(procStat))}
    /\ cpuPc = "read1"
    /\ stat1 = <<>>
    /\ t1 = 0
    /\ i1 = 0
    /\ cpuOut = ""

\* t1, i1 = read_stat(), inside the try
CpuRead1 ==
    /\ cpuPc = "read1"
    /\ IF ReadStatOk(procStat)
       THEN /\ stat1' = procStat
            /\ t1' = ReadStatTotal(procStat)
            /\ i1' = ReadStatIdle(procStat)
            /\ cpuPc' = "sleep"
            /\ cpuOut' = cpuOut
       ELSE /\ cpuOut' = NA
            /\ cpuPc' = "done"
            /\ UNCHANGED <<stat1, t1, i1>>
    /\ UNCHANGED <<procStat, procStatLater>>
    /\ UNCHANGED <<botVars, cfgVars, fs, callVars, histVars>>

\* time.sleep(0.25): the kernel goes on counting; the counters read next are
\* whatever the kernel shows then (a counter that went back is a clock anomaly)
CpuSleep ==
    /\ cpuPc = "sleep"
    /\ IF procStatLater = <<>>
       THEN UNCHANGED <<procStat, procStatLater>>
       ELSE /\ procStat' = Head(procStatLater)
            /\ procStatLater' = Tail(procStatLater)
    /\ cpuPc' = "read2"
    /\ UNCHANGED <<stat1, t1, i1, cpuOut>>
    /\ UNCHANGED <<botVars, cfgVars, fs, callVars, histVars>>

\* t2, i2 = read_stat() and the rest of the try
CpuRead2 ==
    /\ cpuPc = "read2"
    /\ cpuOut' \in CpuUsage(t1, i1, ReadStatTotal(procStat), ReadStatIdle(procStat))
    /\ cpuPc' = "done"
    /\ UNCHANGED <<procStat, procStatLater, stat1, t1, i1>>
    /\ UNCHANGED <<botVars, cfgVars, fs, callVars, histVars>>


-----------------------------------------------------------------------------
(* Text the program takes apart: sequences of one-character strings *)

Digits == {"0", "1", "2", "3", "4", "5", "6", "7", "8", "9"}

DigitVal(c) ==
    CASE c = "0" -> 0 [] c = "1" -> 1 [] c = "2" -> 2 [] c = "3" -> 3
      [] c = "4" -> 4 [] c = "5" -> 5 [] c = "6" -> 6 [] c = "7" -> 7
      [] c = "8" -> 8 [] c = "9" -> 9 [] OTHER -> 0

\* the code point order of the characters the model uses (Python compares
\* strings code point by code point)
Ord(c) ==
    CASE c = " " -> 32 [] c = "-" -> 45 [] c = "." -> 46 [] c = "/" -> 47
      [] c \in Digits -> 48 + DigitVal(c)
      [] c = "_" -> 95
      [] c = "a" -> 97 [] c = "b" -> 98 [] c = "c" -> 99 [] c = "d" -> 100
      [] c = "e" -> 101 [] c = "n" -> 110 [] c = "o" -> 111 [] c = "s" -> 115
      [] c = "t" -> 116 [] c = "x" -> 120 [] c = "z" -> 122

\* the string of a sequence of characters
RECURSIVE Str(_)
Str(cs) ==
    IF Len(cs) = 0 THEN ""
    ELSE IF Len(cs) = 1 THEN cs[1]
    ELSE LET h == Len(cs) \div 2
         IN  Str(SubSeq(cs, 1, h)) \o Str(SubSeq(cs, h + 1, Len(cs)))

\* the decimal digits of n as characters, zero-padded to width w
RECURSIVE DigitChars(_, _)
DigitChars(n, w) ==
    IF n < 10 /\ w <= 1 THEN <<DigitStr(n)>>
    ELSE Append(DigitChars(n \div 10, w - 1), DigitStr(n % 10))

\* a < b for two sequences of characters, as Python compares two str
StrLess(a, b) ==
    LET n == Min(Len(a), Len(b))
        D == {k \in 1..n : a[k] # b[k]}
    IN  IF D = {} THEN Len(a) < Len(b)
        ELSE LET k == CHOOSE k \in D : \A j \in D : k <= j
             IN  Ord(a[k]) < Ord(b[k])

-----------------------------------------------------------------------------
(* parse_backup_ts: datetime.strptime(name, "%Y-%m-%d_%H-%M") *)

\* The directives as _strptime matches them.  Each is a regular expression
\* alternation tried in order; every directive but the last is followed by a
\* literal separator, and what is left over after the last one is an error
\* ("unconverted data remains"), so a name matches in one way only: by the
\* number of characters of each field.
\* %m: 1[0-2] | 0[1-9] | [1-9]
MonthTok(t) ==
    \/ Len(t) = 2 /\ t[1] = "1" /\ t[2] \in {"0", "1", "2"}
    \/ Len(t) = 2 /\ t[1] = "0" /\ t[2] \in Digits \ {"0"}
    \/ Len(t) = 1 /\ t[1] \in Digits \ {"0"}

\* %d: 3[0-1] | [1-2]\d | 0[1-9] | [1-9] | " "[1-9]
DayTok(t) ==
    \/ Len(t) = 2 /\ t[1] = "3" /\ t[2] \in {"0", "1"}
    \/ Len(t) = 2 /\ t[1] \in {"1", "2"} /\ t[2] \in Digits
    \/ Len(t) = 2 /\ t[1] = "0" /\ t[2] \in Digits \ {"0"}
    \/ Len(t) = 1 /\ t[1] \in Digits \ {"0"}
    \/ Len(t) = 2 /\ t[1] = " " /\ t[2] \in Digits \ {"0"}

\* %H: 2[0-3] | [0-1]\d | \d
HourTok(t) ==
    \/ Len(t) = 2 /\ t[1] = "2" /\ t[2] \in {"0", "1", "2", "3"}
    \/ Len(t) = 2 /\ t[1] \in {"0", "1"} /\ t[2] \in Digits
    \/ Len(t) = 1 /\ t[1] \in Digits

\* %M: [0-5]\d | \d
MinuteTok(t) ==
    \/ Len(t) = 2 /\ t[1] \in {"0", "1", "2", "3", "4", "5"} /\ t[2] \in Digits
    \/ Len(t) = 1 /\ t[1] \in Digits

\* %Y: \d\d\d\d
YearTok(t) == Len(t) = 4 /\ \A k \in 1..4 : t[k] \in Digits

\* int() of a matched field
RECURSIVE TokVal(_)
TokVal(t) == IF t = <<>> THEN 0
             ELSE 10 * TokVal(SubSeq(t, 1, Len(t) - 1)) + DigitVal(t[Len(t)])

\* the ways name splits into the five fields around the separators - - _ -
FieldSplits(name) ==
    {w \in [mo : 1..2, d : 1..2, h : 1..2, mi : 1..2] :
        /\ Len(name) = 8 + w.mo + w.d + w.h + w.mi
        /\ YearTok(SubSeq(name, 1, 4))
        /\ name[5] = "-"
        /\ MonthTok(SubSeq(name, 6, 5 + w.mo))
        /\ name[6 + w.mo] = "-"
        /\ DayTok(SubSeq(name, 7 + w.mo, 6 + w.mo + w.d))
        /\ name[7 + w.mo + w.d] = "_"
        /\ HourTok(SubSeq(name, 8 + w.mo + w.d, 7 + w.mo + w.d + w.h))
        /\ name[8 + w.mo + w.d + w.h] = "-"
        /\ MinuteTok(SubSeq(name, 9 + w.mo + w.d + w.h, 8 + w.mo + w.d + w.h + w.mi))}

\* the fields of a name the regular expression matches
MatchedFields(name) ==
    LET w == CHOOSE w \in FieldSplits(name) : TRUE
    IN  [year   |-> TokVal(SubSeq(name, 1, 4)),
         month  |-> TokVal(SubSeq(name, 6, 5 + w.mo)),
         day    |-> TokVal(SubSeq(name, 7 + w.mo, 6 + w.mo + w.d)),
         hour   |-> TokVal(SubSeq(name, 8 + w.mo + w.d, 7 + w.mo + w.d + w.h)),
         minute |-> TokVal(SubSeq(name, 9 + w.mo + w.d + w.h,
                                  8 + w.mo + w.d + w.h + w.mi))]

IsLeap(y) == y % 4 = 0 /\ (y % 100 # 0 \/ y % 400 = 0)

DaysInMonth(y, m) ==
    IF m = 2 THEN (IF IsLeap(y) THEN 29 ELSE 28)
    ELSE IF m \in {4, 6, 9, 11} THEN 30 ELSE 31

\* datetime(...) raises ValueError for year 0 and for a day the month lacks
DateValid(f) == f.year >= 1 /\ f.day <= DaysInMonth(f.year, f.month)

\* parse_backup_ts(name) is not None
ParseOk(name) == FieldSplits(name) # {} /\ DateValid(MatchedFields(name))

\* parse_backup_ts(name), for a name with ParseOk
parse_backup_ts(name) == MatchedFields(name)

\* ts.strftime("%Y-%m-%d_%H-%M"); the C library's %Y does not pad the year
StrftimeName(ts) ==
    NatToStr(ts.year) \o "-" \o ZeroPad(ts.month, 2) \o "-" \o ZeroPad(ts.day, 2)
        \o "_" \o ZeroPad(ts.hour, 2) \o "-" \o ZeroPad(ts.minute, 2)

\* ts.strftime("%Y-%m-%d %H:%M")
StrftimeShown(ts) ==
    NatToStr(ts.year) \o "-" \o ZeroPad(ts.month, 2) \o "-" \o ZeroPad(ts.day, 2)
        \o " " \o ZeroPad(ts.hour, 2) \o ":" \o ZeroPad(ts.minute, 2)

\* the order of datetime values
TsKey(ts) == (((ts.year * 13 + ts.month) * 32 + ts.day) * 24 + ts.hour) * 60 + ts.minute

-----------------------------------------------------------------------------
(* Paths and the file system *)

\* A path string is modelled by its path.split("/"): "/backups" is
\* <<"", "backups">>, "//backups" is <<"", "", "backups">>, "" is <<"">>.
EmptyPath == <<"">>

IsAbs(p) == Len(p) >= 2 /\ p[1] = ""

\* posixpath.normpath: one leading slash, or two when the path starts with
\* exactly two
InitialSlashes(p) ==
    IF ~IsAbs(p) THEN 0
    ELSE IF Len(p) >= 3 /\ p[2] = "" /\ ~(Len(p) >= 4 /\ p[3] = "") THEN 2
    ELSE 1

\* posixpath.normpath's loop over the components
RECURSIVE NormFold(_, _, _)
NormFold(comps, acc, init) ==
    IF comps = <<>> THEN acc
    ELSE LET c == Head(comps)
         IN  IF c \in {"", "."} THEN NormFold(Tail(comps), acc, init)
             ELSE IF \/ c # ".."
                     \/ (init = 0 /\ acc = <<>>)
                     \/ (acc # <<>> /\ acc[Len(acc)] = "..")
                  THEN NormFold(Tail(comps), Append(acc, c), init)
             ELSE IF acc # <<>>
                  THEN NormFold(Tail(comps), SubSeq(acc, 1, Len(acc) - 1), init)
             ELSE NormFold(Tail(comps), acc, init)

normpath(p) ==
    LET init  == InitialSlashes(p)
        comps == NormFold(p, <<>>, init)
    IN  IF init = 0 THEN (IF comps = <<>> THEN <<".">> ELSE comps)
        ELSE [k \in 1..init |-> ""] \o (IF comps = <<>> THEN <<"">> ELSE comps)

\* the working directory of the process: "/"
Cwd == <<"", "">>

\* os.path.join(a, b)
PathJoin(a, b) ==
    IF IsAbs(b) THEN b
    ELSE IF a[Len(a)] = "" THEN SubSeq(a, 1, Len(a) - 1) \o b
    ELSE a \o b

\* os.path.abspath(p)
abspath(p) == normpath(IF IsAbs(p) THEN p ELSE PathJoin(Cwd, p))

\* The directories of the machine that hold backups: D1 is /backups, D2 is
\* /home/backups, and /mnt/usb is a symbolic link to /backups.
DirIds == {"D1", "D2"}

NoDir == "none"

Mounts ==
    { <<<<"backups">>, "D1">>,
      <<<<"home", "backups">>, "D2">>,
      <<<<"mnt", "usb">>, "D1">> }

\* the directory the kernel reaches by a path: empty components (repeated
\* slashes) do not count, a symbolic link is followed
ResolveDir(p) ==
    LET c == SelectSeq(p, LAMBDA x : x # "")
    IN  IF \E m \in Mounts : m[1] = c
        THEN (CHOOSE m \in Mounts : m[1] = c)[2]
        ELSE NoDir

\* the entry called name of directory d, in the file system fsv
HasEntry(fsv, d, name) == \E k \in 1..Len(fsv[d].entries) : fsv[d].entries[k].name = name

EntryOf(fsv, d, name) ==
    fsv[d].entries[CHOOSE k \in 1..Len(fsv[d].entries) : fsv[d].entries[k].name = name]

\* os.path.isdir(os.path.join(base_dir, folder))
IsBackupDir(fsv, base_dir, folder) ==
    LET d == ResolveDir(base_dir)
    IN  /\ d # NoDir
        /\ HasEntry(fsv, d, folder)
        /\ EntryOf(fsv, d, folder).kind = "dir"

-----------------------------------------------------------------------------
(* list_backups *)

\* lines 156-163: the tuples one root gives, in the order scandir gives the
\* entries (the order the directory holds them in)
BackupTuples(passed, base_dir) ==
    Build(LAMBDA k : [ts |-> parse_backup_ts(passed[k].name), name |-> passed[k].name,
                      base_dir |-> base_dir],
          1, Len(passed))

ScanEntries(entries, base_dir) ==
    BackupTuples(SelectSeq(entries, LAMBDA e : e.kind = "dir" /\ ParseOk(e.name)),
                 base_dir)

\* line 147: what seen_dirs remembers of a root
RootKey(base_dir) == abspath(base_dir)

\* lines 144-165: the loop over the roots
RECURSIVE ScanRoots(_, _, _, _)
ScanRoots(roots, seen, acc, fsv) ==
    IF roots = <<>> THEN acc
    ELSE LET given    == Head(roots)
             base_dir == RootKey(given)
             d        == ResolveDir(base_dir)
         IN  IF given = EmptyPath THEN ScanRoots(Tail(roots), seen, acc, fsv)
             ELSE IF base_dir \in seen THEN ScanRoots(Tail(roots), seen, acc, fsv)
             ELSE IF d = NoDir
                  THEN ScanRoots(Tail(roots), seen \cup {base_dir}, acc, fsv)
             ELSE IF ~fsv[d].readable
                  THEN ScanRoots(Tail(roots), seen \cup {base_dir}, acc, fsv)
             ELSE ScanRoots(Tail(roots), seen \cup {base_dir},
                            acc \o ScanEntries(fsv[d].entries, base_dir), fsv)

\* whether the element at j comes before the element at k once the sequence
\* with the keys keys is sorted newest first by a sort that reverses the
\* elements of equal key, for the mutation check
Precedes_TiesReversed(keys, j, k) ==
    \/ keys[j] > keys[k]
    \/ keys[j] = keys[k] /\ j > k

\* whether the element at j comes before the element at k after
\* backups.sort(key=lambda item: item[0], reverse=True): the sort is stable,
\* elements of equal key keep their order, also under reverse=True
Precedes(keys, j, k) ==
    \/ keys[j] > keys[k]
    \/ keys[j] = keys[k] /\ j < k

\* s with each element at its rank
PlaceByRank(s, ranks) ==
    Build(LAMBDA i : s[CHOOSE k \in 1..Len(s) : ranks[k] = i], 1, Len(s))

\* the rank of an element: one more than the number of those that precede it
RankByKey(s, keys) ==
    PlaceByRank(s, Build(LAMBDA k : 1 + Cardinality({j \in 1..Len(s) : Precedes(keys, j, k)}),
                         1, Len(s)))

\* line 167
SortBackups(s) == RankByKey(s, Build(LAMBDA k : TsKey(s[k].ts), 1, Len(s)))

\* list_backups() on the file system fsv
list_backups(base, fallback, fsv) ==
    SortBackups(ScanRoots(<<base, fallback>>, {}, <<>>, fsv))

-----------------------------------------------------------------------------
(* human_size, dir_size_bytes and the walk of backup_files_text *)

RECURSIVE Pow1024(_)
Pow1024(k) == IF k = 0 THEN 1 ELSE 1024 * Pow1024(k - 1)

UnitName(k) ==
    CASE k = 0 -> "B" [] k = 1 -> "KiB" [] k = 2 -> "MiB" [] k = 3 -> "GiB"
      [] k = 4 -> "TiB"

\* num/den rounded to a whole number, half to even
RoundHalfEven(num, den) ==
    LET q == num \div den
        r == num % den
    IN  IF 2 * r < den THEN q
        ELSE IF 2 * r > den THEN q + 1
        ELSE IF q % 2 = 0 THEN q ELSE q + 1

\* f"{size:.2f}" for size = num / den, den a power of 1024: the division by a
\* power of two is exact in a double, and the format rounds the exact value
\* half to even.  (The whole part is split off first to keep the products
\* small.)
Fmt2f(num, den) ==
    LET h == 100 * (num \div den) + RoundHalfEven(100 * (num % den), den)
    IN  NatToStr(h \div 100) \o "." \o ZeroPad(h % 100, 2)

\* the loop of human_size from the unit k on: size is num_bytes / 1024^k
RECURSIVE HumanSizeFrom(_, _)
HumanSizeFrom(num_bytes, k) ==
    IF k = 4 \/ num_bytes < Pow1024(k + 1)
    THEN IF k = 0 THEN NatToStr(num_bytes) \o " B"
         ELSE Fmt2f(num_bytes, Pow1024(k)) \o " " \o UnitName(k)
    ELSE HumanSizeFrom(num_bytes, k + 1)

human_size(num_bytes) == HumanSizeFrom(num_bytes, 0)

\* A file of a backup: rel is its path below the backup directory, size what
\* os.path.getsize gives (-1: it raises OSError), link whether it is a
\* symbolic link.
\* dir_size_bytes(path): links are skipped, a file that cannot be sized too
RECURSIVE SumSizes(_)
SumSizes(fset) ==
    IF fset = {} THEN 0
    ELSE LET f == CHOOSE f \in fset : TRUE
         IN  (IF f.link \/ f.size < 0 THEN 0 ELSE f.size) + SumSizes(fset \ {f})

\* the files os.walk(backup_path) finds: none when the directory is not there
WalkFiles(fsv, base_dir, folder) ==
    IF IsBackupDir(fsv, base_dir, folder)
    THEN EntryOf(fsv, ResolveDir(base_dir), folder).files
    ELSE {}

dir_size_bytes(fsv, base_dir, folder) == SumSizes(WalkFiles(fsv, base_dir, folder))

\* lines 277-281: the sum over the backups that are directories
RECURSIVE TotalBytesOf(_, _, _, _)
TotalBytesOf(bs, fsv, lo, hi) ==
    IF lo > hi THEN 0
    ELSE IF lo = hi
         THEN (IF IsBackupDir(fsv, bs[lo].base_dir, bs[lo].name)
               THEN dir_size_bytes(fsv, bs[lo].base_dir, bs[lo].name)
               ELSE 0)
    ELSE LET mid == (lo + hi) \div 2
         IN  TotalBytesOf(bs, fsv, lo, mid) + TotalBytesOf(bs, fsv, mid + 1, hi)

TotalBytes(bs, fsv) == TotalBytesOf(bs, fsv, 1, Len(bs))

\* the pairs sorted by rel_path, the greatest first, for the mutation check
RECURSIVE SortFiles_Reversed(_)
SortFiles_Reversed(fset) ==
    IF fset = {} THEN <<>>
    ELSE LET f == CHOOSE f \in fset : \A g \in fset \ {f} : StrLess(g.rel, f.rel)
         IN  <<[rel |-> f.rel, size_bytes |-> IF f.size < 0 THEN 0 ELSE f.size]>>
                 \o SortFiles_Reversed(fset \ {f})

\* lines 239-250: the (rel_path, size_bytes) pairs, sorted by rel_path
RECURSIVE SortFiles(_)
SortFiles(fset) ==
    IF fset = {} THEN <<>>
    ELSE LET f == CHOOSE f \in fset : \A g \in fset \ {f} : StrLess(f.rel, g.rel)
         IN  <<[rel |-> f.rel, size_bytes |-> IF f.size < 0 THEN 0 ELSE f.size]>>
                 \o SortFiles(fset \ {f})

-----------------------------------------------------------------------------
(* The texts of the three reports *)

\* max_len = 1800 in each of the three reports
max_len == 1800

\* the code fence around every report; "~" stands for the backquote, which
\* a TLA+ string cannot hold
FenceOpen == "~~~\n"

FenceClose == "\n~~~"

\* "\n".join(lines)
RECURSIVE JoinLines(_)
JoinLines(ls) ==
    IF ls = <<>> THEN ""
    ELSE IF Len(ls) = 1 THEN ls[1]
    ELSE LET h == Len(ls) \div 2
         IN  JoinLines(SubSeq(ls, 1, h)) \o "\n" \o JoinLines(SubSeq(ls, h + 1, Len(ls)))

\* "/".join(path.split("/")): the path string itself
RECURSIVE PathStr(_)
PathStr(p) ==
    IF p = <<>> THEN ""
    ELSE IF Len(p) = 1 THEN p[1]
    ELSE PathStr(SubSeq(p, 1, Len(p) - 1)) \o "/" \o p[Len(p)]

\* str(index) for an integer
IntToStr(n) == IF n < 0 THEN "-" \o NatToStr(-n) ELSE NatToStr(n)

\* the whole return value around its lines
Fenced(ls) == FenceOpen \o JoinLines(ls) \o FenceClose

\* sum(len(line) + 1 for line in lines)
RECURSIVE LenPlusOne(_)
LenPlusOne(ls) == IF ls = <<>> THEN 0 ELSE Len(Head(ls)) + 1 + LenPlusOne(Tail(ls))

IndexEmptyMsg(base, fallback) ==
    FenceOpen \o "Backup sarasas tuscias.\n" \o "Tikrinti katalogai: "
        \o PathStr(base) \o ", " \o PathStr(fallback) \o FenceClose

IndexHeader == <<"Backup sarasas (naujausi virsuje):">>

\* f"{idx:>3}. {ts.strftime('%Y-%m-%d %H:%M')}"
NumberedLine(idx, ts) == PadLeft(NatToStr(idx), 3) \o ". " \o StrftimeShown(ts)

BackupsTrailer(n) == "... ir dar " \o NatToStr(n) \o " backup irasu"

FilesTrailer(n) == "... ir dar " \o NatToStr(n) \o " failu"

FilesEmptyMsg == FenceOpen \o "Backup sarasas tuscias." \o FenceClose

InvalidNumberMsg(number, n) ==
    FenceOpen \o "Neteisingas numeris: " \o IntToStr(number) \o ". Galimi: 1.."
        \o NatToStr(n) \o FenceClose

NotOnDiskMsg(number) ==
    FenceOpen \o "Backup #" \o IntToStr(number) \o " nerastas diske." \o FenceClose

NoFilesMsg(number, ts) ==
    FenceOpen \o "Backup #" \o IntToStr(number) \o " (" \o StrftimeShown(ts)
        \o ") neturi failu." \o FenceClose

FilesHeader(number, ts) ==
    <<"Backup #" \o IntToStr(number) \o " failai (" \o StrftimeShown(ts) \o "):">>

\* f"{rel_path} ({human_size(size_bytes)})"
FileLine(f) == Str(f.rel) \o " (" \o human_size(f.size_bytes) \o ")"

SummaryHeader(count, total_bytes) ==
    <<"Backup kopiju skaicius: " \o NatToStr(count),
      "Bendras backup dydis: " \o human_size(total_bytes),
      "",
      "Naujausi backup:">>

-----------------------------------------------------------------------------
(* The report functions, step by step *)

\* enumerate(backups, start=0), for the mutation check
IndexNumber_FromZero(p) == p - 1

\* enumerate(backups, start=1): the idx of the p-th entry of backups
IndexNumber(p) == p

\* line 215 with the limit of a Discord message for max_len, for the mutation check
OverBudget_MessageLimit(cur, line) == cur + (Len(line) + 1) > 2000

\* line 215 with >= for >, for the mutation check
OverBudget_Strict(cur, line) == cur + (Len(line) + 1) >= max_len

\* lines 214-215 (261-262, 296-297): line_len = len(line) + 1;
\* current_len + line_len > max_len
OverBudget(cur, line) == cur + (Len(line) + 1) > max_len

\* one turn of the budget loop, for the candidate line
BudgetStep(line) ==
    /\ IF OverBudget(current_len, line)
       THEN /\ hidden' = hidden + 1
            /\ UNCHANGED <<lines, current_len, kept>>
       ELSE /\ lines' = Append(lines, line)
            /\ current_len' = current_len + (Len(line) + 1)
            /\ kept' = kept \cup {pos}
            /\ hidden' = hidden
    /\ pos' = pos + 1

\* the numbers backup_files_text is called with
ArgChoices == ((-1)..MaxLowArg) \cup ((MaxBackups - BigSpread)..(MaxBackups + 1))

\* no request: the value of reqs for a request not yet delivered
NoReq == [via |-> "none"]

\* the value of loop when no handler is running
Free == "free"

\* the argument of backup_files_text: the numeris of the running /list command
FilesArgs == IF want = "any" THEN ArgChoices ELSE {reqs[loop].numeris[1]}

\* the report function f may be called now
CanCall(f) == ncalls < MaxCalls /\ lpc \in {"idle", "ret"} /\ want \in {"any", f}

\* the state of a call that returns text
Return(text) ==
    /\ out' = text
    /\ lpc' = "ret"

\* the requests of a behaviour, in the order the gateway delivers them
ReqOrder == <<"r1", "r2">>

Reqs == {ReqOrder[k] : k \in 1..Len(ReqOrder)}

\* no gateway: the state of the bot while the functions are called directly
BotOff ==
    /\ allowDms = TRUE
    /\ allowedChannelId = ""
    /\ reqs = [r \in Reqs |-> NoReq]
    /\ rstate = [r \in Reqs |-> "absent"]
    /\ loop = Free
    /\ replies = [r \in Reqs |-> <<>>]
    /\ invoked = [r \in Reqs |-> {}]
    /\ want = "any"

CallInit ==
    /\ lpc = "idle"
    /\ fn = "none"
    /\ index = 0
    /\ backups = <<>>
    /\ files = <<>>
    /\ lines = <<>>
    /\ hidden = 0
    /\ current_len = 0
    /\ pos = 0
    /\ out = ""

HistInit ==
    /\ ncalls = 0
    /\ churn = 0
    /\ kept = {}
    /\ shown = {}
    /\ fresh = FALSE
    /\ dirAtCheck = "unset"
    /\ dirAtWalk = "unset"

\* the locals of a new call
NewCall(f, i, bs) ==
    /\ fn' = f
    /\ index' = i
    /\ backups' = bs
    /\ files' = <<>>
    /\ pos' = 1
    /\ kept' = {}
    /\ dirAtCheck' = "unset"
    /\ dirAtWalk' = "unset"
    /\ ncalls' = ncalls + 1
    /\ want' = IF want = "any" THEN "any" ELSE "called"

\* list_backups(), called for itself
ListBackupsCall ==
    /\ lpc = "idle"
    /\ want = "any"
    /\ NewCall("list", 0, list_backups(backupBaseDir, backupFallbackDir, fs))
    /\ lpc' = "ret"
    /\ UNCHANGED <<lines, hidden, current_len, out, shown, fresh>>
    /\ UNCHANGED <<reqVars, cpuVars, cfgVars, fs, churn>>

\* backups_index_text, lines 198-210
IndexStart ==
    /\ CanCall("index")
    /\ NewCall("index", 0, list_backups(backupBaseDir, backupFallbackDir, fs))
    /\ LET bs == backups'
       IN  /\ shown' = {}
           /\ fresh' = TRUE
           /\ hidden' = 0
           /\ IF bs = <<>>
              THEN /\ Return(IndexEmptyMsg(backupBaseDir, backupFallbackDir))
                   /\ lines' = <<>>
                   /\ current_len' = 0
              ELSE /\ lines' = IndexHeader
                   /\ current_len' = LenPlusOne(IndexHeader)
                   /\ lpc' = "index_loop"
                   /\ out' = ""
    /\ UNCHANGED <<reqVars, cpuVars, cfgVars, fs, churn>>

\* lines 212-219
IndexStep ==
    /\ lpc = "index_loop"
    /\ pos <= Len(backups)
    /\ LET line == NumberedLine(IndexNumber(pos), backups[pos].ts)
       IN  /\ BudgetStep(line)
           /\ shown' = IF OverBudget(current_len, line) THEN shown
                       ELSE shown \cup {[num |-> IndexNumber(pos),
                                         ts  |-> StrftimeShown(backups[pos].ts)]}
    /\ UNCHANGED <<lpc, fn, index, backups, files, out>>
    /\ UNCHANGED <<botVars, cpuVars, cfgVars, fs, ncalls, churn, fresh, dirAtCheck, dirAtWalk>>

\* lines 221-224
IndexFinish ==
    /\ lpc = "index_loop"
    /\ pos > Len(backups)
    /\ lines' = IF hidden # 0 THEN Append(lines, BackupsTrailer(hidden)) ELSE lines
    /\ Return(Fenced(lines'))
    /\ UNCHANGED <<fn, index, backups, files, hidden, current_len, pos>>
    /\ UNCHANGED <<botVars, cpuVars, cfgVars, fs, histVars>>

\* backup_files_text(index), lines 228-235, for each index of ArgChoices
FilesStart ==
    /\ CanCall("files")
    /\ backups' = list_backups(backupBaseDir, backupFallbackDir, fs)
    /\ \E i \in FilesArgs :
         /\ NewCall("files", i, backups')
         /\ IF backups' = <<>> THEN Return(FilesEmptyMsg)
            ELSE IF i < 1 \/ i > Len(backups')
                 THEN Return(InvalidNumberMsg(i, Len(backups')))
            ELSE /\ lpc' = "files_isdir"
                 /\ out' = ""
    /\ lines' = <<>>
    /\ hidden' = 0
    /\ current_len' = 0
    /\ UNCHANGED <<reqVars, cpuVars, cfgVars, fs, churn, shown, fresh>>

\* lines 236-237
FilesIsDir ==
    /\ lpc = "files_isdir"
    /\ LET b == backups[index]
       IN  IF ~IsBackupDir(fs, b.base_dir, b.name)
           THEN /\ Return(NotOnDiskMsg(index))
                /\ dirAtCheck' = "no"
           ELSE /\ lpc' = "files_walk"
                /\ dirAtCheck' = "yes"
                /\ out' = out
    /\ UNCHANGED <<fn, index, backups, files, lines, hidden, current_len, pos>>
    /\ UNCHANGED <<botVars, cpuVars, cfgVars, fs, ncalls, churn, kept, shown, fresh, dirAtWalk>>

\* lines 239-257
FilesWalk ==
    /\ lpc = "files_walk"
    /\ LET b == backups[index]
       IN  /\ files' = SortFiles(WalkFiles(fs, b.base_dir, b.name))
           /\ dirAtWalk' = IF IsBackupDir(fs, b.base_dir, b.name) THEN "yes" ELSE "no"
           /\ IF files' = <<>>
              THEN /\ Return(NoFilesMsg(index, b.ts))
                   /\ UNCHANGED <<lines, current_len>>
              ELSE /\ lines' = FilesHeader(index, b.ts)
                   /\ current_len' = LenPlusOne(lines')
                   /\ lpc' = "files_loop"
                   /\ out' = out
    /\ UNCHANGED <<fn, index, backups, hidden, pos>>
    /\ UNCHANGED <<botVars, cpuVars, cfgVars, fs, ncalls, churn, kept, shown, fresh, dirAtCheck>>

\* lines 259-266
FilesStep ==
    /\ lpc = "files_loop"
    /\ pos <= Len(files)
    /\ BudgetStep(FileLine(files[pos]))
    /\ UNCHANGED <<lpc, fn, index, backups, files, out>>
    /\ UNCHANGED <<botVars, cpuVars, cfgVars, fs, ncalls, churn, shown, fresh, dirAtCheck, dirAtWalk>>

\* lines 268-271
FilesFinish ==
    /\ lpc = "files_loop"
    /\ pos > Len(files)
    /\ lines' = IF hidden # 0 THEN Append(lines, FilesTrailer(hidden)) ELSE lines
    /\ Return(Fenced(lines'))
    /\ UNCHANGED <<fn, index, backups, files, hidden, current_len, pos>>
    /\ UNCHANGED <<botVars, cpuVars, cfgVars, fs, histVars>>

\* backups_summary_text, lines 275-293
SummaryStart ==
    /\ CanCall("summary")
    /\ NewCall("summary", 0, list_backups(backupBaseDir, backupFallbackDir, fs))
    /\ hidden' = 0
    /\ IF backups' = <<>>
       THEN /\ lines' = Append(SummaryHeader(0, TotalBytes(backups', fs)), "nera")
            /\ current_len' = 0
            /\ Return(Fenced(lines'))
       ELSE /\ lines' = SummaryHeader(Len(backups'), TotalBytes(backups', fs))
            /\ current_len' = LenPlusOne(lines')
            /\ lpc' = "summary_loop"
            /\ out' = ""
    /\ UNCHANGED <<reqVars, cpuVars, cfgVars, fs, churn, shown, fresh>>

\* lines 294-301
SummaryStep ==
    /\ lpc = "summary_loop"
    /\ pos <= Len(backups)
    /\ BudgetStep(NumberedLine(IndexNumber(pos), backups[pos].ts))
    /\ UNCHANGED <<lpc, fn, index, backups, files, out>>
    /\ UNCHANGED <<botVars, cpuVars, cfgVars, fs, ncalls, churn, shown, fresh, dirAtCheck, dirAtWalk>>

\* lines 302-305
SummaryFinish ==
    /\ lpc = "summary_loop"
    /\ pos > Len(backups)
    /\ lines' = IF hidden # 0 THEN Append(lines, BackupsTrailer(hidden)) ELSE lines
    /\ Return(Fenced(lines'))
    /\ UNCHANGED <<fn, index, backups, files, hidden, current_len, pos>>
    /\ UNCHANGED <<botVars, cpuVars, cfgVars, fs, histVars>>

-----------------------------------------------------------------------------
(* The file systems and configurations the model starts from *)

Entry(name, kind, fset) == [name |-> name, kind |-> kind, files |-> fset]

File(rel, size, link) == [rel |-> rel, size |-> size, link |-> link]

\* the name the backup script gives a backup: YYYY-MM-DD_HH-MM
StrictName(y, mo, d, h, mi) ==
    DigitChars(y, 4) \o <<"-">> \o DigitChars(mo, 2) \o <<"-">> \o DigitChars(d, 2)
        \o <<"_">> \o DigitChars(h, 2) \o <<"-">> \o DigitChars(mi, 2)

\* the same instant written by hand, without the zeros: 2024-1-2_9-30
LooseName == <<"2", "0", "2", "4", "-", "1", "-", "2", "_", "9", "-", "3", "0">>

NotesName == <<"n", "o", "t", "e", "s">>

FileAX == File(<<"a", "/", "x", ".", "t", "x", "t">>, 10, FALSE)

FileB == File(<<"b", ".", "t", "x", "t">>, 5, FALSE)

\* a symbolic link to a file of 1536 bytes
FileLink == File(<<"c">>, 1536, TRUE)

\* a file that cannot be sized (a dangling link, a file just deleted)
FileGone == File(<<"z">>, -1, FALSE)

\* a relative path of n characters: directories of 63 letters c
LongRel(c, n) == [k \in 1..n |-> IF k % 64 = 0 THEN "/" ELSE c]

LongFiles ==
    { File(LongRel("a", LongRelLen), 5, FALSE),
      File(LongRel("b", LongRelLen), 5, FALSE),
      File(LongRel("c", LongRelLen), 5, FALSE),
      File(LongRel("d", HugeRelLen), 5, FALSE),
      File(<<"e", ".", "t", "x", "t">>, 5, FALSE) }

\* the sequences without repetition of at most n elements of S
RECURSIVE InjSeqs(_, _)
InjSeqs(S, n) ==
    IF n = 0 THEN {<<>>}
    ELSE LET shorter == InjSeqs(S, n - 1)
         IN  shorter \cup
             {Append(q, x) : <<q, x>> \in
                 {qx \in shorter \X S :
                     /\ Len(qx[1]) = n - 1
                     /\ \A k \in 1..Len(qx[1]) : qx[1][k].name # qx[2].name}}

Dir(canList, entries) == [readable |-> canList, entries |-> entries]

\* entries of a root, for list_backups alone
InvPool1 ==
    { Entry(StrictName(2024, 1, 2, 9, 30), "dir", {}),
      Entry(LooseName, "dir", {}),
      Entry(StrictName(2024, 1, 1, 10, 0), "dir", {}),
      Entry(NotesName, "dir", {}),
      Entry(StrictName(2024, 1, 3, 0, 0), "file", {}) }

InvPool2 ==
    { Entry(StrictName(2024, 1, 2, 9, 30), "dir", {FileB}),
      Entry(StrictName(2024, 3, 1, 0, 0), "dir", {}),
      Entry(StrictName(2024, 2, 30, 10, 0), "dir", {}) }

\* the ways the two roots are configured
BaseChoices == { <<"", "backups">>, <<"">> }

FallbackChoices ==
    { <<"", "home", "backups">>,       \* /home/backups, the other root
      <<"", "backups">>,               \* /backups, the same string as the base
      <<"", "backups", "">>,           \* /backups/
      <<"", "home", "..", "backups">>, \* /home/../backups
      <<"backups">>,                   \* backups, relative to the working directory
      <<"", "", "backups">>,           \* //backups
      <<"", "mnt", "usb">>,            \* /mnt/usb, the symbolic link to /backups
      <<"", "nowhere">>,               \* no such directory
      <<"">> }                         \* not set

OtherInit ==
    /\ procStat = NoFile
    /\ procStatLater = <<>>
    /\ cpuPc = "off"
    /\ stat1 = <<>>
    /\ t1 = 0
    /\ i1 = 0
    /\ cpuOut = ""

InvInit ==
    /\ BotOff
    /\ OtherInit
    /\ CallInit
    /\ HistInit
    /\ backupBaseDir \in BaseChoices
    /\ backupFallbackDir \in FallbackChoices
    /\ fs \in [DirIds -> [readable : BOOLEAN, entries : {<<>>}]] \cup
              {[D1 |-> Dir(TRUE, e1), D2 |-> Dir(TRUE, e2)] :
                  <<e1, e2>> \in InjSeqs(InvPool1, MaxDirEntries)
                                   \X InjSeqs(InvPool2, MaxDirEntries)}

SpecInv == InvInit /\ [][ListBackupsCall]_vars

\* ---- the report functions ----

ListPool ==
    { Entry(StrictName(2024, 1, 2, 9, 30), "dir", {FileAX, FileB}),
      Entry(LooseName, "dir", {}),
      Entry(StrictName(2024, 1, 1, 10, 0), "dir", {FileB, FileLink, FileGone}),
      Entry(NotesName, "dir", {}) }

\* a backup of the other root taken at the minute of one of the first root
Tie(d, h, mi) == Entry(StrictName(2024, 1, d, h, mi), "dir", {FileB})

\* n backups taken a minute apart, the oldest first in the directory
ManyBackups(n) ==
    [k \in 1..n |-> Entry(StrictName(2024, 1, 1, k \div 60, k % 60), "dir", {FileB})]

SmallFs ==
    {[D1 |-> Dir(TRUE, e1), D2 |-> Dir(TRUE, e2)] :
        <<e1, e2>> \in InjSeqs(ListPool, MaxDirEntries) \X {<<>>, <<Tie(2, 9, 30)>>}}

BigFs ==
    {[D1 |-> Dir(TRUE, ManyBackups(n)), D2 |-> Dir(TRUE, e2)] :
        <<n, e2>> \in ((MaxBackups - BigSpread)..MaxBackups) \X {<<>>, <<Tie(1, 0, 1)>>}}

LongFs ==
    {[D1 |-> Dir(TRUE, <<Entry(StrictName(2024, 1, 1, 0, 0), "dir", fset)>>),
      D2 |-> Dir(TRUE, <<>>)] : fset \in SUBSET LongFiles}

ListInit ==
    /\ BotOff
    /\ OtherInit
    /\ CallInit
    /\ HistInit
    /\ backupBaseDir = <<"", "backups">>
    /\ backupFallbackDir = <<"", "home", "backups">>
    /\ fs \in SmallFs \cup BigFs \cup LongFs

\* another process (the backup script, its rotation) removes an entry of a root
EnvRemove ==
    /\ churn < MaxChurn
    /\ \E d \in DirIds :
         /\ Len(fs[d].entries) <= MaxChurnDir
         /\ \E k \in 1..Len(fs[d].entries) :
              fs' = [fs EXCEPT ![d].entries =
                        SubSeq(@, 1, k - 1) \o SubSeq(@, k + 1, Len(@))]
    /\ churn' = churn + 1
    /\ fresh' = FALSE
    /\ UNCHANGED <<botVars, cpuVars, cfgVars, callVars>>
    /\ UNCHANGED <<ncalls, kept, shown, dirAtCheck, dirAtWalk>>

\* another process adds a backup to a root
EnvAdd ==
    /\ churn < MaxChurn
    /\ \E d \in DirIds :
         /\ Len(fs[d].entries) < MaxChurnDir
         /\ \E e \in ListPool :
              /\ ~HasEntry(fs, d, e.name)
              /\ fs' = [fs EXCEPT ![d].entries = Append(@, e)]
    /\ churn' = churn + 1
    /\ fresh' = FALSE
    /\ UNCHANGED <<botVars, cpuVars, cfgVars, callVars>>
    /\ UNCHANGED <<ncalls, kept, shown, dirAtCheck, dirAtWalk>>

ListNext ==
    \/ IndexStart
    \/ IndexStep
    \/ IndexFinish
    \/ FilesStart
    \/ FilesIsDir
    \/ FilesWalk
    \/ FilesStep
    \/ FilesFinish
    \/ SummaryStart
    \/ SummaryStep
    \/ SummaryFinish
    \/ EnvRemove
    \/ EnvAdd

SpecList == ListInit /\ [][ListNext]_vars

\* ---- the CPU sampler ----

CpuNext == CpuRead1 \/ CpuSleep \/ CpuRead2

CpuSpecInit ==
    /\ BotOff
    /\ CpuInit
    /\ CallInit
    /\ HistInit
    /\ backupBaseDir = EmptyPath
    /\ backupFallbackDir = EmptyPath
    /\ fs = [d \in DirIds |-> Dir(TRUE, <<>>)]

SpecCpu == CpuSpecInit /\ [][CpuNext]_vars

-----------------------------------------------------------------------------
(* The command handlers on the event loop *)

\* interaction.guild / message.guild of a direct message
NoGuild == "None"

\* numeris of /list: <<>> is None (no number given), <<n>> is the number n
NoNumeris == <<>>

Capitals ==
    <<"A", "B", "C", "D", "E", "F", "G", "H", "I", "J", "K", "L", "M",
      "N", "O", "P", "Q", "R", "S", "T", "U", "V", "W", "X", "Y", "Z">>

Smalls ==
    <<"a", "b", "c", "d", "e", "f", "g", "h", "i", "j", "k", "l", "m",
      "n", "o", "p", "q", "r", "s", "t", "u", "v", "w", "x", "y", "z">>

\* str.lower(), for one character
Lower(c) ==
    IF \E k \in 1..Len(Capitals) : Capitals[k] = c
    THEN Smalls[CHOOSE k \in 1..Len(Capitals) : Capitals[k] = c]
    ELSE c

Whitespace == {" ", "\n", "\t"}

\* str.strip()
RECURSIVE Strip(_)
Strip(s) ==
    IF s = <<>> THEN s
    ELSE IF Head(s) \in Whitespace THEN Strip(Tail(s))
    ELSE IF s[Len(s)] \in Whitespace THEN Strip(SubSeq(s, 1, Len(s) - 1))
    ELSE s

\* message.content.strip().lower()
StripLower(content) == [k \in 1..Len(Strip(content)) |-> Lower(Strip(content)[k])]

\* where a request comes from: a direct message, channel 1 or channel 2 of a guild
Places ==
    { [guild |-> NoGuild, channel_id |-> 3],
      [guild |-> "guild", channel_id |-> 1],
      [guild |-> "guild", channel_id |-> 2] }

\* the messages people and bots write
Contents ==
    { [author_bot |-> FALSE, content |-> <<"s", "t", "a", "t", "s">>],
      [author_bot |-> FALSE, content |-> <<"l", "i", "s", "t">>],
      [author_bot |-> FALSE, content |-> <<" ", "S", "t", "a", "t", "s", "\n">>],
      [author_bot |-> FALSE, content |-> <<"h", "e", "l", "l", "o">>],
      [author_bot |-> TRUE,  content |-> <<"s", "t", "a", "t", "s">>] }

Event(via, place, numeris, msg) ==
    [via |-> via, guild |-> place.guild, channel_id |-> place.channel_id,
     numeris |-> numeris, author_bot |-> msg.author_bot, content |-> msg.content]

\* what the gateway delivers: /stats, /list, /list 1, and messages
Events ==
    LET none == [author_bot |-> FALSE, content |-> <<>>]
    IN  {Event("slash_stats", p, NoNumeris, none) : p \in Places}
        \cup {Event("slash_list", pn[1], pn[2], none) : pn \in Places \X {NoNumeris, <<1>>}}
        \cup {Event("message", pm[1], NoNumeris, pm[2]) : pm \in Places \X Contents}

\* allowed_where without the test of ALLOW_DMS, for the mutation check
allowed_where_DmsAlways(interaction) ==
    IF interaction.guild = NoGuild THEN TRUE
    ELSE IF allowedChannelId # ""
         THEN NatToStr(interaction.channel_id) = allowedChannelId
         ELSE TRUE

\* lines 406-414
allowed_where(interaction) ==
    IF interaction.guild = NoGuild THEN allowDms
    ELSE IF allowedChannelId # ""
         THEN NatToStr(interaction.channel_id) = allowedChannelId
         ELSE TRUE

\* lines 465-470 of on_message: the message is not let through
MessageRefused(message) ==
    IF message.guild = NoGuild THEN ~allowDms
    ELSE allowedChannelId # "" /\ NatToStr(message.channel_id) # allowedChannelId

\* interaction.response.send_message("Sitam kanale neleista.", ephemeral=True)
Refusal == [text |-> "Sitam kanale neleista.", ephemeral |-> TRUE]

\* send_message(text) and channel.send(text)
Reply(text) == [text |-> text, ephemeral |-> FALSE]

\* stats_text(), lines 386-403: of its lines, the one of the CPU sampler; the others
\* are the outputs of commands and files this model does not hold
stats_text(cpu) == FenceOpen \o "CPU:   " \o cpu \o FenceClose

\* the handler of r returns: the event loop's thread is free again
Finish(r) ==
    /\ rstate' = [rstate EXCEPT ![r] = "done"]
    /\ loop' = Free

\* the handler of r goes on to call a report function, keeping the thread
Invoke(r, f) ==
    /\ invoked' = [invoked EXCEPT ![r] = @ \cup {f}]
    /\ rstate' = [rstate EXCEPT ![r] = "running"]
    /\ loop' = r
    /\ UNCHANGED replies

\* stats_text() is entered: cpu_usage_str() starts with fresh locals
CallCpuUsage ==
    /\ cpuPc' = "read1"
    /\ stat1' = <<>>
    /\ t1' = 0
    /\ i1' = 0
    /\ cpuOut' = ""
    /\ UNCHANGED <<procStat, procStatLater>>

\* the gateway delivers an interaction or a message; the library queues its handler
Arrive ==
    \E k \in 1..Len(ReqOrder) :
        /\ rstate[ReqOrder[k]] = "absent"
        /\ \A j \in 1..(k - 1) : rstate[ReqOrder[j]] # "absent"
        /\ \E e \in Events : reqs' = [reqs EXCEPT ![ReqOrder[k]] = e]
        /\ rstate' = [rstate EXCEPT ![ReqOrder[k]] = "queued"]
        /\ UNCHANGED <<botCfgVars, loop, replies, invoked, want>>
        /\ UNCHANGED <<cpuVars, cfgVars, fs, callVars, histVars>>

\* slash_stats, lines 440-444, up to the call of cpu_usage_str
SlashStats(r) ==
    /\ rstate[r] = "queued"
    /\ reqs[r].via = "slash_stats"
    /\ loop = Free
    /\ IF ~allowed_where(reqs[r])
       THEN /\ replies' = [replies EXCEPT ![r] = Append(@, Refusal)]
            /\ Finish(r)
            /\ UNCHANGED <<invoked, cpuVars>>
       ELSE /\ Invoke(r, "stats_text")
            /\ CallCpuUsage
    /\ UNCHANGED <<botCfgVars, reqs, want>>
    /\ UNCHANGED <<cfgVars, fs, callVars, histVars>>

\* slash_list, lines 448-456, up to the call of the report function
SlashList(r) ==
    /\ rstate[r] = "queued"
    /\ reqs[r].via = "slash_list"
    /\ loop = Free
    /\ IF ~allowed_where(reqs[r])
       THEN /\ replies' = [replies EXCEPT ![r] = Append(@, Refusal)]
            /\ Finish(r)
            /\ UNCHANGED <<invoked, want>>
       ELSE IF reqs[r].numeris = NoNumeris
            THEN /\ Invoke(r, "backups_index_text")
                 /\ want' = "index"
            ELSE /\ Invoke(r, "backup_files_text")
                 /\ want' = "files"
    /\ UNCHANGED <<botCfgVars, reqs>>
    /\ UNCHANGED <<cpuVars, cfgVars, fs, callVars, histVars>>

\* on_message, lines 460-474, up to the call of the report function
OnMessage(r) ==
    /\ rstate[r] = "queued"
    /\ reqs[r].via = "message"
    /\ loop = Free
    /\ LET message == reqs[r]
           text    == StripLower(message.content)
       IN  IF \/ message.author_bot
              \/ text \notin {<<"s", "t", "a", "t", "s">>, <<"l", "i", "s", "t">>}
              \/ MessageRefused(message)
           THEN /\ Finish(r)
                /\ UNCHANGED <<replies, invoked, want, cpuVars>>
           ELSE IF text = <<"s", "t", "a", "t", "s">>
                THEN /\ Invoke(r, "stats_text")
                     /\ CallCpuUsage
                     /\ UNCHANGED want
                ELSE /\ Invoke(r, "backups_summary_text")
                     /\ want' = "summary"
                     /\ UNCHANGED cpuVars
    /\ UNCHANGED <<botCfgVars, reqs>>
    /\ UNCHANGED <<cfgVars, fs, callVars, histVars>>

\* stats_text() returns; await send_message(...) / channel.send(...)
StatsSend ==
    /\ loop # Free
    /\ "stats_text" \in invoked[loop]
    /\ cpuPc = "done"
    /\ replies' = [replies EXCEPT ![loop] = Append(@, Reply(stats_text(cpuOut)))]
    /\ Finish(loop)
    /\ cpuPc' = "off"
    /\ stat1' = <<>>
    /\ t1' = 0
    /\ i1' = 0
    /\ cpuOut' = ""
    /\ UNCHANGED <<procStat, procStatLater, botCfgVars, reqs, invoked, want>>
    /\ UNCHANGED <<cfgVars, fs, callVars, histVars>>

\* the report function returned; await send_message(...) / channel.send(...)
ListSend ==
    /\ loop # Free
    /\ want = "called"
    /\ lpc = "ret"
    /\ replies' = [replies EXCEPT ![loop] = Append(@, Reply(out))]
    /\ Finish(loop)
    /\ want' = "none"
    /\ UNCHANGED <<botCfgVars, reqs, invoked>>
    /\ UNCHANGED <<cpuVars, cfgVars, fs, callVars, histVars>>

\* two backups in the first root, none in the other
BotFs ==
    [D1 |-> Dir(TRUE, <<Entry(StrictName(2024, 1, 2, 9, 30), "dir", {FileAX, FileB}),
                        Entry(StrictName(2024, 1, 1, 10, 0), "dir", {FileB})>>),
     D2 |-> Dir(TRUE, <<>>)]

BotInit ==
    /\ allowDms \in BOOLEAN
    /\ allowedChannelId \in {"", "1"}
    /\ reqs = [r \in Reqs |-> NoReq]
    /\ rstate = [r \in Reqs |-> "absent"]
    /\ loop = Free
    /\ replies = [r \in Reqs |-> <<>>]
    /\ invoked = [r \in Reqs |-> {}]
    /\ want = "none"
    /\ procStat = [k \in 1..4 |-> 0]
    /\ procStatLater = <<[k \in 1..4 |-> IF k \in {1, 4} THEN MaxTick ELSE 0],
                         [k \in 1..4 |-> MaxTick]>>
    /\ cpuPc = "off"
    /\ stat1 = <<>>
    /\ t1 = 0
    /\ i1 = 0
    /\ cpuOut = ""
    /\ CallInit
    /\ HistInit
    /\ backupBaseDir = <<"", "backups">>
    /\ backupFallbackDir = <<"", "home", "backups">>
    /\ fs = BotFs

BotNext ==
    \/ Arrive
    \/ \E r \in Reqs : SlashStats(r)
    \/ \E r \in Reqs : SlashList(r)
    \/ \E r \in Reqs : OnMessage(r)
    \/ CpuRead1
    \/ CpuSleep
    \/ CpuRead2
    \/ StatsSend
    \/ IndexStart
    \/ IndexStep
    \/ IndexFinish
    \/ FilesStart
    \/ FilesIsDir
    \/ FilesWalk
    \/ FilesStep
    \/ FilesFinish
    \/ SummaryStart
    \/ SummaryStep
    \/ SummaryFinish
    \/ ListSend

SpecBot == BotInit /\ [][BotNext]_vars

-----------------------------------------------------------------------------
(* C1, C2, C6, C10: the bounded reports *)

\* a report function is in its budget loop
InLoop == lpc \in {"index_loop", "files_loop", "summary_loop"}

\* a report function went through its budget loop and returned
Budgeted == lpc = "ret" /\ current_len > 0

\* the number of candidate lines of the loop
Candidates == IF fn = "files" THEN Len(files) ELSE Len(backups)

\* the p-th candidate line
Candidate(p) ==
    IF fn = "files" THEN FileLine(files[p]) ELSE NumberedLine(p, backups[p].ts)

\* the candidates the returned text does not show
Dropped == Candidates - Cardinality(kept)

Trailer(n) == IF fn = "files" THEN FilesTrailer(n) ELSE BackupsTrailer(n)

\* the length of the body of the returned text, between the code fences
BodyLen == Len(out) - Len(FenceOpen) - Len(FenceClose)

\* C1: in the three bounded reports the body without the trailer line is
\* shorter than max_len; the trailer line is added outside the budget, so with
\* it the body is longer than max_len by at most the length of the trailer
\* line; and the trailer line is there exactly when a candidate was dropped,
\* with N the exact number of dropped candidates.
C1_BodyWithinBudgetPlusTrailer ==
    Budgeted =>
        /\ current_len <= max_len
        /\ hidden = Dropped
        /\ IF Dropped = 0
           THEN /\ BodyLen = current_len - 1
                /\ lines[Len(lines)] \notin {Trailer(n) : n \in 0..Candidates}
           ELSE /\ lines[Len(lines)] = Trailer(Dropped)
                /\ BodyLen = current_len + Len(Trailer(Dropped))

\* a report that dropped a candidate and whose body, with the trailer line, is
\* longer than max_len + 1
C1_Witness ==
    /\ Budgeted
    /\ Dropped >= 1
    /\ lines[Len(lines)] = Trailer(Dropped)
    /\ BodyLen > max_len + 1

\* C1 as stated: the body, the trailer line included, is never longer than
\* max_len by more than one character, and when a candidate was dropped the
\* trailer line is there with the exact number of dropped candidates.
C1_BodyNeverOverBudget ==
    Budgeted =>
        /\ BodyLen <= max_len + 1
        /\ Dropped >= 1 => lines[Len(lines)] = Trailer(Dropped)

\* one step of a report function, seen from the budget loop
C2_Step ==
    /\ InLoop => current_len = LenPlusOne(lines)
    /\ (InLoop /\ lpc' # lpc) => (lpc' = "ret" /\ pos = Candidates + 1)
    /\ (InLoop /\ lpc' = lpc /\ pos' # pos) =>
          LET line == Candidate(pos)
          IN  /\ pos' = pos + 1
              /\ IF current_len + Len(line) + 1 <= max_len
                 THEN /\ lines' = Append(lines, line)
                      /\ current_len' = current_len + Len(line) + 1
                      /\ kept' = kept \cup {pos}
                      /\ hidden' = hidden
                 ELSE /\ UNCHANGED <<lines, current_len, kept>>
                      /\ hidden' = hidden + 1

\* C2: the budget loop visits the candidates in order, one per turn; a
\* candidate is kept, appended after the lines kept before it, if and only if
\* current_len + len(candidate) + 1 <= max_len when it is visited, current_len
\* being the sum of len + 1 over the lines so far; a dropped candidate does not
\* end the scan, which goes on to the last candidate.
C2_BestEffortPacking == [][C2_Step]_vars

\* a file list where a long line was dropped and a later, shorter one was kept,
\* after a line that filled the budget
C2_Witness ==
    /\ fn = "files"
    /\ lpc = "ret"
    /\ \E j, k \in 1..Len(files) : j < k /\ j \notin kept /\ k \in kept

\* C6: backup_files_text(index), with N the number of entries of the inventory
\* it has just taken: for N = 0 it says that the list of backups is empty,
\* whatever the index; for N > 0 and an index outside 1..N it gives the 'invalid
\* number, valid range 1..N' message; for an index in range whose directory is
\* not there at the check it gives the 'not found on disk' message; for a
\* directory there at the check in which the walk finds no file (also because it
\* was removed after the check) it says that the backup has no files; otherwise
\* it gives the file list sorted by relative path.
C6_FilesClassified ==
    (fn = "files" /\ lpc = "ret") =>
        LET n == Len(backups)
        IN  IF n = 0 THEN out = FilesEmptyMsg
            ELSE IF index < 1 \/ index > n THEN out = InvalidNumberMsg(index, n)
            ELSE IF dirAtCheck = "no" THEN out = NotOnDiskMsg(index)
            ELSE IF dirAtWalk = "no" \/ files = <<>>
                 THEN out = NoFilesMsg(index, backups[index].ts)
            ELSE /\ dirAtCheck = "yes" /\ dirAtWalk = "yes"
                 /\ \A j, k \in 1..Len(files) : j < k => StrLess(files[j].rel, files[k].rel)
                 /\ out = Fenced(lines)
                 /\ lines[1] = FilesHeader(index, backups[index].ts)[1]
                 /\ Len(lines) >= 2

\* the backup directory was there at the check and gone at the walk, and the
\* answer is that the backup has no files
C6_Witness ==
    /\ fn = "files"
    /\ lpc = "ret"
    /\ dirAtCheck = "yes"
    /\ dirAtWalk = "no"
    /\ out = NoFilesMsg(index, backups[index].ts)

\* C6 as stated: every index outside 1..N, also for N = 0, gives the 'invalid
\* number' message; an index in range whose directory is not on disk when the
\* manifest is built gives the 'not found on disk' message; otherwise the
\* result is the sorted file list.
C6_InvalidNotFoundOrList ==
    (fn = "files" /\ lpc = "ret") =>
        LET n == Len(backups)
        IN  IF index < 1 \/ index > n THEN out = InvalidNumberMsg(index, n)
            ELSE IF dirAtCheck = "no" \/ dirAtWalk = "no" THEN out = NotOnDiskMsg(index)
            ELSE /\ \A j, k \in 1..Len(files) : j < k => StrLess(files[j].rel, files[k].rel)
                 /\ out = Fenced(lines)
                 /\ lines # <<>>

\* C10: the number on a line of the index report is the 1-based position of the
\* entry in the inventory; and when the roots did not change since the index
\* report, the manifest of k carries the timestamp of the index line numbered k.
C10_NumbersStable ==
    /\ fn = "index" =>
          \A sh \in shown :
              /\ sh.num \in 1..Len(backups)
              /\ sh.ts = StrftimeShown(backups[sh.num].ts)
    /\ (fn = "files" /\ fresh /\ lpc \in {"files_loop", "ret"}) =>
          \A sh \in shown :
              sh.num = index =>
                  /\ lines # <<>> =>
                        lines[1] = "Backup #" \o IntToStr(index) \o " failai ("
                                       \o sh.ts \o "):"
                  /\ (lpc = "ret" /\ lines = <<>> /\ dirAtCheck = "yes") =>
                        out = FenceOpen \o "Backup #" \o IntToStr(index) \o " ("
                                  \o sh.ts \o ") neturi failu." \o FenceClose

\* the index report dropped lines, and the manifest of the last number it shows
\* was asked for next, with the roots unchanged
C10_Witness ==
    /\ fn = "files"
    /\ fresh
    /\ lpc = "ret"
    /\ lines # <<>>
    /\ Cardinality(shown) < Len(backups)
    /\ \E sh \in shown : sh.num = index /\ sh.num = Cardinality(shown)

-----------------------------------------------------------------------------
(* C3, C4, C5: list_backups *)

\* list_backups() has returned, and backups is what it returned
Listed == fn = "list" /\ lpc = "ret"

\* C3: list_backups never returns the same backup directory twice: when the two
\* roots designate the same directory, also when they are written as two
\* different path strings, each backup subdirectory appears once.
C3_NoDirectoryTwice ==
    Listed =>
        \A j, k \in 1..Len(backups) :
            (/\ ResolveDir(backups[j].base_dir) = ResolveDir(backups[k].base_dir)
             /\ backups[j].name = backups[k].name) => j = k

\* the format YYYY-MM-DD_HH-MM, zero-padded: 16 characters, digits around - - _ -
IsStrictName(name) ==
    /\ Len(name) = 16
    /\ \A k \in 1..16 :
          IF k \in {5, 8, 14} THEN name[k] = "-"
          ELSE IF k = 11 THEN name[k] = "_"
          ELSE name[k] \in Digits

\* C4: list_backups includes an entry only if its name is in the format
\* YYYY-MM-DD_HH-MM exactly, zero-padded, and formatting the parsed timestamp of
\* a returned entry gives back the directory name character for character.
C4_ExactFormatRoundTrip ==
    Listed =>
        \A k \in 1..Len(backups) :
            /\ IsStrictName(backups[k].name)
            /\ StrftimeName(backups[k].ts) = Str(backups[k].name)

\* a is a later instant than b
Later(a, b) ==
    LET fa == <<a.year, a.month, a.day, a.hour, a.minute>>
        fb == <<b.year, b.month, b.day, b.hour, b.minute>>
    IN  \E i \in 1..5 : fa[i] > fb[i] /\ \A j \in 1..(i - 1) : fa[j] = fb[j]

\* the merged sequence before the sort: the primary root's tuples, then the
\* fallback root's
Merged == ScanRoots(<<backupBaseDir, backupFallbackDir>>, {}, <<>>, fs)

PlaceIn(s, x) == CHOOSE i \in 1..Len(s) : s[i] = x

\* C5: what list_backups returns is sorted non-increasing by timestamp, and
\* entries of the same timestamp keep their merge order: the one of the primary
\* root comes before the one of the fallback root.
C5_NewestFirstTiesKeepOrder ==
    Listed =>
        /\ \A j, k \in 1..Len(backups) :
              j < k => ~Later(backups[k].ts, backups[j].ts)
        /\ \A j, k \in 1..Len(backups) :
              (j < k /\ backups[j].ts = backups[k].ts) =>
                  PlaceIn(Merged, backups[j]) < PlaceIn(Merged, backups[k])

\* both roots gave a backup of the same minute, the primary root's is listed
\* first, and an older backup follows them
C5_Witness ==
    /\ Listed
    /\ \E j, k, m \in 1..Len(backups) :
          /\ j < k /\ k < m
          /\ backups[j].ts = backups[k].ts
          /\ backups[j].base_dir = <<"", "backups">>
          /\ backups[k].base_dir = <<"", "home", "backups">>
          /\ Later(backups[k].ts, backups[m].ts)

-----------------------------------------------------------------------------
(* C7, C9: the handlers *)

\* the handler of request r can start
CanStart(r) == ENABLED (SlashStats(r) \/ SlashList(r) \/ OnMessage(r))

\* C7: while a stats request is inside the sampler's sleep between its two
\* readings, every other request that waits for its handler can start.
C7_SleepBlocksNoRequest ==
    cpuPc = "sleep" => \A r \in Reqs : rstate[r] = "queued" => CanStart(r)

\* the permission policy, as written: in a direct message iff the DM-allow flag
\* is set; in a channel iff no restriction is configured or the channel is the
\* configured one
PolicyAllows(e) ==
    IF e.guild = NoGuild THEN allowDms
    ELSE allowedChannelId = "" \/ NatToStr(e.channel_id) = allowedChannelId

Triggers == {<<"s", "t", "a", "t", "s">>, <<"l", "i", "s", "t">>}

\* a slash command, or a plain-text trigger written by a person
IsCommand(e) ==
    \/ e.via \in {"slash_stats", "slash_list"}
    \/ e.via = "message" /\ ~e.author_bot /\ StripLower(e.content) \in Triggers

Reports ==
    {"stats_text", "backups_index_text", "backup_files_text", "backups_summary_text"}

\* the handler of r is past its permission check
Decided(r) == rstate[r] \in {"running", "done"}

\* C9: a command is let through exactly when the policy allows it; for a denied
\* command no report function is invoked; a denied slash command is answered
\* with the one short ephemeral refusal, and a denied plain-text trigger is not
\* answered at all.
C9_DeniedNeverReports ==
    \A r \in Reqs :
        (Decided(r) /\ IsCommand(reqs[r])) =>
            IF PolicyAllows(reqs[r])
            THEN /\ invoked[r] \in {{f} : f \in Reports}
                 /\ rstate[r] = "done" =>
                        /\ Len(replies[r]) = 1
                        /\ replies[r][1] # Refusal
                        /\ ~replies[r][1].ephemeral
            ELSE /\ invoked[r] = {}
                 /\ rstate[r] = "done"
                 /\ replies[r] = IF reqs[r].via = "message" THEN <<>> ELSE <<Refusal>>

\* both kinds of denied command were handled: the slash command was refused, the
\* plain-text trigger was dropped without an answer
C9_Witness ==
    \E r, q \in Reqs :
        /\ rstate[r] = "done" /\ rstate[q] = "done"
        /\ reqs[r].via = "message" /\ IsCommand(reqs[r]) /\ ~PolicyAllows(reqs[r])
        /\ replies[r] = <<>> /\ invoked[r] = {}
        /\ reqs[q].via \in {"slash_stats", "slash_list"} /\ ~PolicyAllows(reqs[q])
        /\ replies[q] = <<Refusal>> /\ invoked[q] = {}

\* C9 as stated: a command is let through exactly when the policy allows it, and
\* every denied command, slash command or plain-text trigger, gets the short
\* refusal while no report function is invoked for it.
C9_DeniedGetsRefusal ==
    \A r \in Reqs :
        (Decided(r) /\ IsCommand(reqs[r])) =>
            /\ PolicyAllows(reqs[r]) <=> invoked[r] # {}
            /\ (~PolicyAllows(reqs[r]) /\ rstate[r] = "done") =>
                   /\ Len(replies[r]) = 1
                   /\ replies[r][1].text = Refusal.text

-----------------------------------------------------------------------------
(* C8 *)

Percentages == {NatToStr(n) \o "%" : n \in 0..100}

\* C8: cpu_usage_str returns "n/a" whenever the difference of the two totals
\* is 0 or negative; and when every counter of the second reading is at least
\* the same counter of the first and the total strictly grows, it returns a
\* whole number of percent between 0 and 100.
C8_CpuUsageRange ==
    (cpuPc = "done" /\ stat1 # <<>>) =>
        LET dt == ReadStatTotal(procStat) - t1
        IN  /\ dt <= 0 => cpuOut = NA
            /\ ((\A k \in 1..Len(stat1) : procStat[k] >= stat1[k]) /\ dt > 0)
                  => cpuOut \in Percentages

\* a run where the counters grew, the CPU was partly busy, and a percentage
\* strictly between 0 and 100 came out
C8_Witness ==
    /\ cpuPc = "done"
    /\ stat1 # <<>>
    /\ \A k \in 1..Len(stat1) : procStat[k] >= stat1[k]
    /\ ReadStatTotal(procStat) > t1
    /\ cpuOut \in Percentages \ {"0%", "100%"}

=============================================================================
